---- MODULE Spec2Model ----
(***************************************************************************)
(* A model of py2cwlwriter.py: the CwlTool descriptor builder, the port    *)
(* and argument classes, the null-pruning helper and the JSON emission.    *)
(*                                                                         *)
(* Python values are modelled as records of five shapes:                    *)
(*   [tag, txt]   a scalar: None, a bool, an int or a str, with txt the    *)
(*                sequence of characters of str(value);                    *)
(*   [dict]       a dict, a function from key to value;                    *)
(*   [list]       a list, a sequence of values;                            *)
(*   [obj]        a reference to a class instance on the heap (Bindings);  *)
(*   [ref]        a reference to the __dict__ of a heap instance (what     *)
(*                object2input and its siblings append).                   *)
(* Strings are sequences of one-character strings so that the character    *)
(* tests of the code (startswith, marker in, split) are computed.          *)
(* dict.items() is the Python 2 one (a list, so deleting while iterating   *)
(* is well defined): the module is Python 2 code.                          *)
(***************************************************************************)
EXTENDS Integers, Sequences, FiniteSets, TLC

VARIABLES
    tool,     \* the CwlTool instance's __dict__
    heap,     \* the instances the caller constructed: [cls, dict, args]
    out,      \* the tree object2json emitted last, or NotEmitted
    call,     \* the operation called last, with its arguments
    raised,   \* whether the last call raised an exception
    calls     \* number of calls made so far

vars == <<tool, heap, out, call, raised, calls>>

\* Bounds of the model.
MaxCalls == 2

(***************************************************************************)
(* String literals                                                         *)
(***************************************************************************)
S_empty == << >>
S_None == <<"N", "o", "n", "e">>
S_True == <<"T", "r", "u", "e">>
S_False == <<"F", "a", "l", "s", "e">>
S_null == <<"n", "u", "l", "l">>
S_File == <<"F", "i", "l", "e">>
S_boolean == <<"b", "o", "o", "l", "e", "a", "n">>
S_no == <<"n", "o">>
S_hash_no == <<"#", "n", "o">>
S_yes == <<"y", "e", "s">>
S_glob_txt == <<"*", ".", "t", "x", "t">>
S_out == <<"o", "u", "t">>
S_job == <<"$", "j", "o", "b">>
S_in_txt == <<"i", "n", ".", "t", "x", "t">>
S_log == <<"l", "o", "g">>
S_quoted == <<"'", "G", "'">>
S_engine == <<"#", "c", "w", "l", "-", "j", "s", "-", "e", "n", "g", "i", "n", "e">>
S_Expression == <<"E", "x", "p", "r", "e", "s", "s", "i", "o", "n">>
S_EER == <<"E", "x", "p", "r", "e", "s", "s", "i", "o", "n", "E", "n", "g", "i", "n", "e", "R", "e", "q", "u", "i", "r", "e", "m", "e", "n", "t">>
S_Docker == <<"D", "o", "c", "k", "e", "r", "R", "e", "q", "u", "i", "r", "e", "m", "e", "n", "t">>
S_CPU == <<"s", "b", "g", ":", "C", "P", "U", "R", "e", "q", "u", "i", "r", "e", "m", "e", "n", "t">>
S_Mem == <<"s", "b", "g", ":", "M", "e", "m", "R", "e", "q", "u", "i", "r", "e", "m", "e", "n", "t">>
S_AWS == <<"s", "b", "g", ":", "A", "W", "S", "I", "n", "s", "t", "a", "n", "c", "e", "T", "y", "p", "e">>
S_rabix == <<"r", "a", "b", "i", "x", "/", "j", "s", "-", "e", "n", "g", "i", "n", "e">>
S_ubuntu == <<"u", "b", "u", "n", "t", "u", ":", "l", "a", "t", "e", "s", "t">>
S_img == <<"i", "m", "g">>
S_c3 == <<"c", "3">>
S_tool == <<"t", "e", "s", "t", "_", "t", "o", "o", "l">>
S_label == <<"t", "e", "s", "t", "i", "n", "g", "1", "2", "3">>
S_gaurav == <<"g", "a", "u", "r", "a", "v">>
S_draft == <<"c", "w", "l", ":", "d", "r", "a", "f", "t", "-", "2">>
S_CLT == <<"C", "o", "m", "m", "a", "n", "d", "L", "i", "n", "e", "T", "o", "o", "l">>
S_python_test_py == <<"p", "y", "t", "h", "o", "n", " ", "t", "e", "s", "t", ".", "p", "y">>
S_space == <<" ">>
S_dash_y == <<"-", "y">>
S_dash_r == <<"-", "r">>
S_dash_t == <<"-", "t">>
S_verbose == <<"-", "-", "v", "e", "r", "b", "o", "s", "e">>
S_0 == <<"0">>
S_1 == <<"1">>
S_2 == <<"2">>
S_30 == <<"3", "0">>
S_1000 == <<"1", "0", "0", "0">>

(***************************************************************************)
(* Python values                                                           *)
(***************************************************************************)
PyNone == [tag |-> "none", txt |-> S_None]
PyTrue == [tag |-> "bool", txt |-> S_True]
PyFalse == [tag |-> "bool", txt |-> S_False]
PyStr(s) == [tag |-> "str", txt |-> s]
PyInt(digits) == [tag |-> "int", txt |-> digits]
PyDict(d) == [dict |-> d]
PyList(l) == [list |-> l]

IsScalar(v) == DOMAIN v = {"tag", "txt"}
IsDict(v) == DOMAIN v = {"dict"}
IsList(v) == DOMAIN v = {"list"}
IsObj(v) == DOMAIN v = {"obj"}
IsRef(v) == DOMAIN v = {"ref"}

\* str(value) of a scalar
str(v) == v.txt

\* bool(value): the truth value an `if` takes
Truthy(v) ==
    IF IsScalar(v)
    THEN CASE v.tag = "none" -> FALSE
           [] v.tag = "bool" -> v.txt = S_True
           [] v.tag = "int" -> v.txt # S_0
           [] OTHER -> v.txt # S_empty
    ELSE IF IsList(v) THEN v.list # << >>
    ELSE IF IsDict(v) THEN DOMAIN v.dict # {}
    ELSE TRUE

\* d[k] = v on a dict: the key is added when absent
SetItem(d, k, v) == [x \in DOMAIN d \cup {k} |-> IF x = k THEN v ELSE d[x]]

(***************************************************************************)
(* Module-level helpers of py2cwlwriter.py                                 *)
(***************************************************************************)

\* `v is None` deletes the key; a dict value is pruned in place; any other
\* value (a list, an instance, a falsy scalar) is left as it is.
\* A pruning that tests truth (`if not v`) instead of identity with None.
RECURSIVE clean_falsy_values(_)
clean_falsy_values(input_dict) ==
    [k \in {x \in DOMAIN input_dict : Truthy(input_dict[x])} |->
        IF IsDict(input_dict[k])
        THEN PyDict(clean_falsy_values(input_dict[k].dict))
        ELSE input_dict[k]]

RECURSIVE clean_null_values(_)
clean_null_values(input_dict) ==
    [k \in {x \in DOMAIN input_dict : input_dict[x] # PyNone} |->
        IF IsDict(input_dict[k])
        THEN PyDict(clean_null_values(input_dict[k].dict))
        ELSE input_dict[k]]

startswith(s, c) == Len(s) > 0 /\ s[1] = c

check_id_hash(id) ==
    IF startswith(str(id), "#") THEN id ELSE PyStr(<<"#">> \o str(id))

\* any(marker in str(value) for marker in ["'", "$", "."])
\* A marker list that misses the period.
MarkersWithoutPeriod == {"'", "$"}
Markers == {"'", "$", "."}
HasMarker(value) == \E i \in 1..Len(str(value)) : str(value)[i] \in Markers

Expression(value) ==
    PyDict([class |-> PyStr(S_Expression), engine |-> PyStr(S_engine),
            script |-> value])

\* str.split(): the maximal runs of non-whitespace characters
IsSpace(c) == c \in {" ", "\t", "\n"}
RECURSIVE SplitFrom(_, _, _)
SplitFrom(s, i, word) ==
    IF i > Len(s)
    THEN IF word = << >> THEN << >> ELSE <<PyStr(word)>>
    ELSE IF IsSpace(s[i])
         THEN (IF word = << >> THEN << >> ELSE <<PyStr(word)>>)
              \o SplitFrom(s, i + 1, << >>)
         ELSE SplitFrom(s, i + 1, Append(word, s[i]))
split(s) == SplitFrom(s, 1, << >>)

(***************************************************************************)
(* CwlTool: each method as a function of self's __dict__                   *)
(***************************************************************************)
\* An insert at the front instead of an append.
ListPrepend(self, k, v) == [self EXCEPT ![k] = PyList(<<v>> \o @.list)]
ListAppend(self, k, v) == [self EXCEPT ![k] = PyList(Append(@.list, v))]

expr_reqs ==
    PyDict([class |-> PyStr(S_EER), id |-> PyStr(S_engine),
            requirements |-> PyList(<<PyDict([class |-> PyStr(S_Docker),
                                              dockerPull |-> PyStr(S_rabix)])>>)])

HasClass(l, c) == \E i \in 1..Len(l) : l[i].dict["class"] = PyStr(c)

\* A registration that does not look for an existing entry.
requirements_check_unguarded(self) ==
    [self EXCEPT !["requirements"] = PyList(Append(@.list, expr_reqs))]

requirements_check(self) ==
    IF ~HasClass(self["requirements"].list, S_EER)
    THEN ListAppend(self, "requirements", expr_reqs)
    ELSE self

\* expression_check returns [self, value]: self after requirements_check,
\* and the value or the Expression record that wraps it.
expression_check(self, value) ==
    [self |-> requirements_check(self),
     value |-> IF HasMarker(value) THEN Expression(value) ELSE value]

add_input(self, id, type, required, label, description, prefix, cmdInclude, separate, position) ==
    LET binding == PyDict([k \in {"prefix", "sbg:cmdInclude", "separate", "position"} |->
                              CASE k = "prefix" -> prefix
                                [] k = "sbg:cmdInclude" -> cmdInclude
                                [] k = "separate" -> separate
                                [] OTHER -> position])
        new_input == [id |-> id, label |-> label, description |-> description,
                      inputBinding |-> binding,
                      type |-> IF ~Truthy(required)
                               THEN PyList(<<PyStr(S_null)>>)
                               ELSE PyList(<<PyStr(S_null), PyStr(str(type))>>)]
    IN  ListAppend(self, "inputs", PyDict(new_input))

add_output(self, id, type, glob, required, label, description) ==
    LET new_output == [id |-> id, label |-> label, description |-> description,
                       outputBinding |-> PyDict([glob |-> glob]),
                       type |-> IF ~Truthy(required)
                                THEN PyList(<<PyStr(S_null)>>)
                                ELSE PyList(<<PyStr(S_null), PyStr(str(type))>>)]
    IN  ListAppend(self, "outputs", PyDict(new_output))

add_argument(self, prefix, order, separate) ==
    LET new_argument == [prefix |-> prefix, order |-> order, separate |-> separate]
    IN  ListAppend(self, "arguments", PyDict(clean_null_values(new_argument)))

add_base_command(self, base) ==
    [self EXCEPT !["baseCommand"] = PyList(split(base.txt))]

add_docker(self, dockerPull, dockerImageID) ==
    LET docker == [class |-> PyStr(S_Docker), dockerPull |-> dockerPull,
                   dockerImageID |-> dockerImageID]
    IN  ListAppend(self, "hints", PyDict(docker))

add_cpu(self, value) ==
    LET r == expression_check(self, value)
        cpu == [class |-> PyStr(S_CPU), value |-> r.value]
    IN  ListAppend(r.self, "hints", PyDict(cpu))

add_mem(self, value) ==
    LET r == expression_check(self, value)
        mem == [class |-> PyStr(S_Mem), value |-> r.value]
    IN  ListAppend(r.self, "hints", PyDict(mem))

add_aws_instance(self, value) ==
    LET aws == [class |-> PyStr(S_AWS), value |-> value]
    IN  ListAppend(self, "hints", PyDict(aws))

add_computational_requirements(self, cpu, mem, aws) ==
    LET s1 == add_mem(add_cpu(self, cpu), mem)
    IN  IF Truthy(aws) THEN add_aws_instance(s1, aws) ELSE s1

add_stdin(self, stdin) ==
    LET r == expression_check(self, stdin)
    IN  SetItem(r.self, "stdin", r.value)

add_stdout(self, stdout) ==
    LET r == expression_check(self, stdout)
    IN  SetItem(r.self, "stdout", r.value)

\* CwlTool.__init__
CwlTool(id, label, author, version, description) ==
    add_computational_requirements(
        [id |-> id, author |-> author, version |-> version,
         description |-> description, label |-> label,
         class_ |-> PyStr(S_CLT),
         inputs |-> PyList(<< >>), outputs |-> PyList(<< >>),
         arguments |-> PyList(<< >>),
         stdout |-> PyStr(S_empty), stdin |-> PyStr(S_empty),
         baseCommand |-> PyList(<< >>), requirements |-> PyList(<< >>),
         successCodes |-> PyList(<< >>), temporaryFailCodes |-> PyList(<< >>),
         hints |-> PyList(<< >>)],
        PyInt(S_1), PyInt(S_1000), PyNone)

(***************************************************************************)
(* CwlInput, CwlOutput, CwlArgument, Bindings: a constructor returns the   *)
(* instances it creates, the port or argument first, for a heap that       *)
(* already holds n instances.                                              *)
(***************************************************************************)
\* args records what the constructor was called with; no code reads it.
Instance(cls, dict, args) == [cls |-> cls, dict |-> dict, args |-> args]

\* CwlInput.expression_check
CwlInput_expression_check(value) ==
    IF HasMarker(value) THEN Expression(value) ELSE value

\* A classification that never wraps.
CwlOutput_expression_check_literal(value) == value

\* CwlOutput.expression_check
CwlOutput_expression_check(value) ==
    IF HasMarker(value) THEN Expression(value) ELSE value

create_input_binding(prefix, separate, position, cmdInclude) ==
    Instance("Bindings",
             [prefix |-> prefix, separate |-> separate, position |-> position,
              sbg_cmdInclude |-> cmdInclude],
             [prefix |-> prefix, separate |-> separate, position |-> position,
              cmdInclude |-> cmdInclude])

CwlInput(n, id, type, required, label, description, prefix, separate, position, valueFrom) ==
    LET d0 == [id |-> check_id_hash(id),
               type |-> IF Truthy(required)
                        THEN PyList(<<PyStr(str(type))>>)
                        ELSE PyList(<<PyStr(S_null), PyStr(str(type))>>),
               required |-> required, label |-> label,
               description |-> description]
        d1 == IF Truthy(prefix)
              THEN SetItem(d0, "inputBinding", [obj |-> n + 2])
              ELSE d0
        d2 == IF Truthy(valueFrom)
              THEN SetItem(d1, "valueFrom", CwlInput_expression_check(valueFrom))
              ELSE d1
    IN  <<Instance("CwlInput", d2,
                   [id |-> id, type |-> type, required |-> required,
                    label |-> label, description |-> description,
                    prefix |-> prefix, separate |-> separate,
                    position |-> position, valueFrom |-> valueFrom])>>
        \o (IF Truthy(prefix)
            THEN <<create_input_binding(prefix, separate, position, PyTrue)>>
            ELSE << >>)

create_output_binding(glob) ==
    Instance("Bindings", [glob |-> CwlOutput_expression_check(glob)],
             [glob |-> glob])

CwlOutput(n, id, type, glob, required, label, description, fileTypes) ==
    LET d == [id |-> check_id_hash(id),
              type |-> IF Truthy(required)
                       THEN PyList(<<PyStr(str(type))>>)
                       ELSE PyList(<<PyStr(S_null), PyStr(str(type))>>),
              outputBinding |-> [obj |-> n + 2],
              required |-> required, label |-> label,
              description |-> description, fileTypes |-> fileTypes]
    IN  <<Instance("CwlOutput", d,
                   [id |-> id, type |-> type, glob |-> glob,
                    required |-> required, label |-> label,
                    description |-> description, fileTypes |-> fileTypes]),
          create_output_binding(glob)>>

CwlArgument(n, valueFrom, prefix, separate, position) ==
    <<Instance("CwlArgument",
               [valueFrom |-> valueFrom, prefix |-> prefix,
                separate |-> separate, position |-> position],
               [valueFrom |-> valueFrom, prefix |-> prefix,
                separate |-> separate, position |-> position])>>

(***************************************************************************)
(* object2input, object2argument, object2output: each instance's __dict__  *)
(* is pruned in place and that same dict is appended.  The result is       *)
(* [self, heap].                                                           *)
(***************************************************************************)
RECURSIVE AppendObjects(_, _, _, _)
AppendObjects(self, h, key, args) ==
    IF args = << >>
    THEN [self |-> self, heap |-> h]
    ELSE LET o == Head(args)
             h1 == [h EXCEPT ![o].dict = clean_null_values(@)]
         IN  AppendObjects(ListAppend(self, key, [ref |-> o]), h1, key, Tail(args))

object2input(self, h, args) == AppendObjects(self, h, "inputs", args)
object2argument(self, h, args) == AppendObjects(self, h, "arguments", args)
object2output(self, h, args) == AppendObjects(self, h, "outputs", args)

(***************************************************************************)
(* object2json: json.dumps calls `default` on what it cannot encode, the   *)
(* CwlTool itself and every Bindings instance it meets; default prunes the *)
(* instance's __dict__ in place and returns it.  Dicts and lists are       *)
(* encoded as they are.  The two text replacements rename keys.            *)
(***************************************************************************)
WireKey(k) ==
    CASE k = "class_" -> "class"
      [] k = "sbg_cmdInclude" -> "sbg:cmdInclude"
      [] OTHER -> k

RECURSIVE Encode(_, _)
Encode(v, h) ==
    IF IsScalar(v) THEN v
    ELSE IF IsList(v)
    THEN PyList([i \in 1..Len(v.list) |-> Encode(v.list[i], h)])
    ELSE IF IsDict(v)
    THEN PyDict([k \in {WireKey(x) : x \in DOMAIN v.dict} |->
                    Encode(v.dict[CHOOSE x \in DOMAIN v.dict : WireKey(x) = k], h)])
    ELSE IF IsRef(v)
    THEN Encode(PyDict(h[v.ref].dict), h)
    ELSE Encode(PyDict(clean_null_values(h[v.obj].dict)), h)

\* The instances `default` is called on while v is encoded.
RECURSIVE Defaulted(_, _)
Defaulted(v, h) ==
    IF IsScalar(v) THEN {}
    ELSE IF IsList(v)
    THEN UNION {Defaulted(v.list[i], h) : i \in 1..Len(v.list)}
    ELSE IF IsDict(v)
    THEN UNION {Defaulted(v.dict[k], h) : k \in DOMAIN v.dict}
    ELSE IF IsRef(v)
    THEN Defaulted(PyDict(h[v.ref].dict), h)
    ELSE {v.obj} \cup Defaulted(PyDict(clean_null_values(h[v.obj].dict)), h)

\* The result is [self, heap, data].
object2json(self, h) ==
    LET pruned == clean_null_values(self)
        seen == Defaulted(PyDict(pruned), h)
    IN  [self |-> pruned,
         heap |-> [i \in 1..Len(h) |->
                     IF i \in seen
                     THEN [h[i] EXCEPT !.dict = clean_null_values(@)]
                     ELSE h[i]],
         data |-> Encode(PyDict(pruned), h)]

NotEmitted == [none |-> TRUE]

(***************************************************************************)
(* The arguments the calls are made with                                   *)
(***************************************************************************)
Booleans == {PyTrue, PyFalse}
StdioValues == {PyStr(S_in_txt), PyStr(S_log)}
HintValues == {PyInt(S_2), PyStr(S_job)}
ImageIDs == {PyNone, PyStr(S_img)}
BaseCommands == {PyNone, PyStr(S_empty), PyStr(S_space), PyStr(S_python_test_py)}
AddArgumentArgs ==
    {[prefix |-> PyNone, order |-> PyNone, separate |-> PyTrue],
     [prefix |-> PyStr(S_dash_t), order |-> PyInt(S_1), separate |-> PyFalse]}
\* CwlInput(id, type="boolean", required, prefix, position, valueFrom), the
\* other parameters at their defaults: the identifier and requiredness vary
\* with no binding and no value source, the binding and the value source
\* vary on the required port "yes".
CwlInputArgs ==
    {[id |-> PyStr(S_yes), required |-> r, prefix |-> PyNone,
      position |-> PyInt(S_0), valueFrom |-> PyNone] : r \in Booleans}
    \cup
    {[id |-> PyStr(S_hash_no), required |-> PyTrue, prefix |-> PyStr(S_dash_y),
      position |-> q, valueFrom |-> PyNone] : q \in {PyInt(S_0), PyNone}}
    \cup
    {[id |-> PyStr(S_yes), required |-> PyTrue, prefix |-> PyNone,
      position |-> PyInt(S_0), valueFrom |-> v] :
        v \in {PyStr(S_job), PyStr(S_log), PyInt(S_0)}}
\* CwlOutput(id, type="File", glob, required)
CwlOutputArgs ==
    {[id |-> PyStr(S_no), glob |-> PyStr(S_glob_txt), required |-> r] :
        r \in Booleans}
    \cup
    {[id |-> PyStr(S_hash_no), glob |-> g, required |-> PyTrue] :
        g \in {PyStr(S_out), PyNone}}
\* CwlArgument(valueFrom, prefix, separate, position)
CwlArgumentArgs ==
    {[valueFrom |-> PyStr(S_verbose), prefix |-> PyNone, separate |-> PyFalse,
      position |-> PyInt(S_0)],
     [valueFrom |-> PyInt(S_30), prefix |-> PyStr(S_dash_r), separate |-> PyTrue,
      position |-> PyInt(S_1)],
     [valueFrom |-> PyStr(S_job), prefix |-> PyNone, separate |-> PyFalse,
      position |-> PyInt(S_0)]}

\* The instances of a class on the heap, and the *args a call may pass:
\* one or two of them.
InstancesOf(cls) == {i \in 1..Len(heap) : heap[i].cls = cls}
ArgLists(cls) ==
    {<<i>> : i \in InstancesOf(cls)}
    \cup {<<i, j>> : i \in InstancesOf(cls), j \in InstancesOf(cls)}

(***************************************************************************)
(* The state machine: one action per call                                  *)
(***************************************************************************)
Init ==
    /\ tool = CwlTool(PyStr(S_tool), PyStr(S_label), PyStr(S_gaurav),
                      PyStr(S_draft), PyNone)
    /\ heap = << >>
    /\ out = NotEmitted
    /\ call = [op |-> "CwlTool"]
    /\ raised = FALSE
    /\ calls = 0

\* A call that returns: self becomes t, the rest as given.
Returns(op, args, t, h, o) ==
    /\ calls < MaxCalls
    /\ calls' = calls + 1
    /\ call' = [op |-> op, args |-> args]
    /\ raised' = FALSE
    /\ tool' = t
    /\ heap' = h
    /\ out' = o

\* A call that raises before it changes anything.
Raises(op, args) ==
    /\ calls < MaxCalls
    /\ calls' = calls + 1
    /\ call' = [op |-> op, args |-> args]
    /\ raised' = TRUE
    /\ UNCHANGED <<tool, heap, out>>

AddStdin ==
    \E v \in StdioValues :
        Returns("add_stdin", [stdin |-> v], add_stdin(tool, v), heap, out)

AddStdout ==
    \E v \in {PyStr(S_job), PyStr(S_out)} :
        Returns("add_stdout", [stdout |-> v], add_stdout(tool, v), heap, out)

AddCpu ==
    \E v \in HintValues :
        Returns("add_cpu", [value |-> v], add_cpu(tool, v), heap, out)

AddMem ==
    \E v \in {PyStr(S_quoted)} :
        Returns("add_mem", [value |-> v], add_mem(tool, v), heap, out)

AddAwsInstance ==
    Returns("add_aws_instance", [value |-> PyStr(S_c3)],
            add_aws_instance(tool, PyStr(S_c3)), heap, out)

AddComputationalRequirements ==
    \E a \in {[cpu |-> PyInt(S_1), aws |-> PyStr(S_c3)],
               [cpu |-> PyStr(S_job), aws |-> PyNone]} :
      LET cpu == a.cpu
          aws == a.aws IN
        Returns("add_computational_requirements",
                [cpu |-> cpu, mem |-> PyInt(S_1000), aws |-> aws],
                add_computational_requirements(tool, cpu, PyInt(S_1000), aws),
                heap, out)

AddDocker ==
    \E image \in ImageIDs :
        Returns("add_docker", [dockerPull |-> PyStr(S_ubuntu), dockerImageID |-> image],
                add_docker(tool, PyStr(S_ubuntu), image), heap, out)

\* base.split() raises AttributeError on None, the parameter's default.
AddBaseCommand ==
    \E base \in BaseCommands :
        IF base = PyNone
        THEN Raises("add_base_command", [base |-> base])
        ELSE Returns("add_base_command", [base |-> base],
                     add_base_command(tool, base), heap, out)

AddInput ==
    \E required \in Booleans :
        Returns("add_input",
                [id |-> PyStr(S_yes), type |-> PyStr(S_boolean), required |-> required],
                add_input(tool, PyStr(S_yes), PyStr(S_boolean), required, PyNone,
                          PyNone, PyNone, PyTrue, PyTrue, PyNone),
                heap, out)

AddOutput ==
    \E required \in Booleans :
        Returns("add_output",
                [id |-> PyStr(S_no), type |-> PyStr(S_File),
                 glob |-> PyStr(S_glob_txt), required |-> required],
                add_output(tool, PyStr(S_no), PyStr(S_File), PyStr(S_glob_txt),
                           required, PyNone, PyNone),
                heap, out)

AddArgument ==
    \E a \in AddArgumentArgs :
        Returns("add_argument", a,
                add_argument(tool, a.prefix, a.order, a.separate), heap, out)

NewCwlInput ==
    \E a \in CwlInputArgs :
        Returns("CwlInput", a @@ [type |-> PyStr(S_boolean), self |-> Len(heap) + 1],
                tool,
                heap \o CwlInput(Len(heap), a.id, PyStr(S_boolean), a.required,
                                 PyNone, PyNone, a.prefix, PyTrue, a.position,
                                 a.valueFrom),
                out)

NewCwlOutput ==
    \E a \in CwlOutputArgs :
        Returns("CwlOutput", a @@ [type |-> PyStr(S_File), self |-> Len(heap) + 1],
                tool,
                heap \o CwlOutput(Len(heap), a.id, PyStr(S_File), a.glob,
                                  a.required, PyNone, PyNone, PyNone),
                out)

NewCwlArgument ==
    \E a \in CwlArgumentArgs :
        Returns("CwlArgument", a @@ [self |-> Len(heap) + 1],
                tool,
                heap \o CwlArgument(Len(heap), a.valueFrom, a.prefix, a.separate,
                                    a.position),
                out)

Object2Input ==
    \E args \in ArgLists("CwlInput") :
        \E r \in {object2input(tool, heap, args)} :
            Returns("object2input", [args |-> args], r.self, r.heap, out)

Object2Argument ==
    \E args \in ArgLists("CwlArgument") :
        \E r \in {object2argument(tool, heap, args)} :
            Returns("object2argument", [args |-> args], r.self, r.heap, out)

Object2Output ==
    \E args \in ArgLists("CwlOutput") :
        \E r \in {object2output(tool, heap, args)} :
            Returns("object2output", [args |-> args], r.self, r.heap, out)

\* object2json only reads what the builder calls made: it is not counted.
Object2Json ==
    \E r \in {object2json(tool, heap)} :
        /\ call' = [op |-> "object2json", args |-> [none |-> TRUE]]
        /\ raised' = FALSE
        /\ tool' = r.self
        /\ heap' = r.heap
        /\ out' = r.data
        /\ UNCHANGED calls

Next ==
    \/ AddStdin
    \/ AddStdout
    \/ AddCpu
    \/ AddMem
    \/ AddAwsInstance
    \/ AddComputationalRequirements
    \/ AddDocker
    \/ AddBaseCommand
    \/ AddInput
    \/ AddOutput
    \/ AddArgument
    \/ NewCwlInput
    \/ NewCwlOutput
    \/ NewCwlArgument
    \/ Object2Input
    \/ Object2Argument
    \/ Object2Output
    \/ Object2Json

Spec == Init /\ [][Next]_vars

(***************************************************************************)
(* The descriptor's parts, as the properties below read them               *)
(***************************************************************************)
Inputs == tool["inputs"].list
Outputs == tool["outputs"].list
Arguments == tool["arguments"].list
Hints == tool["hints"].list
Requirements == tool["requirements"].list
BaseCommand == tool["baseCommand"].list
Last(l) == l[Len(l)]

\* The record a list entry stands for: an instance's __dict__ or a dict.
PortDict(p) == IF IsRef(p) THEN heap[p.ref].dict ELSE p.dict

IsExpression(v) ==
    /\ IsDict(v)
    /\ "class" \in DOMAIN v.dict
    /\ v.dict["class"] = PyStr(S_Expression)

\* What the specification expects of a classified field, on its own list
\* of marker characters.
SpecMarkers == {"'", "$", "."}
Classified(v) ==
    IF \E i \in 1..Len(v.txt) : v.txt[i] \in SpecMarkers
    THEN PyDict([class |-> PyStr(S_Expression), engine |-> PyStr(S_engine),
                 script |-> v])
    ELSE v

IsPrefix(a, b) == Len(a) <= Len(b) /\ \A i \in 1..Len(a) : a[i] = b[i]

\* The fields of the descriptor that hold an Expression record.
DynamicFields ==
    {<<k, 0>> : k \in {x \in {"stdin", "stdout"} \cap DOMAIN tool :
                          IsExpression(tool[x])}}
    \cup {<<"hints", i>> : i \in {j \in 1..Len(Hints) :
            "value" \in DOMAIN Hints[j].dict /\ IsExpression(Hints[j].dict["value"])}}
    \cup {<<"inputs", i>> : i \in {j \in 1..Len(Inputs) :
            /\ "valueFrom" \in DOMAIN PortDict(Inputs[j])
            /\ IsExpression(PortDict(Inputs[j])["valueFrom"])}}
    \cup {<<"outputs", i>> : i \in {j \in 1..Len(Outputs) :
            /\ IsRef(Outputs[j])
            /\ "glob" \in DOMAIN heap[PortDict(Outputs[j])["outputBinding"].obj].dict
            /\ IsExpression(heap[PortDict(Outputs[j])["outputBinding"].obj].dict["glob"])}}

EngineEntries ==
    {i \in 1..Len(Requirements) : Requirements[i].dict["class"] = PyStr(S_EER)}

(***************************************************************************)
(* C1: requirements never holds two entries of the same class, and when    *)
(* any field of the descriptor is a dynamic expression it holds exactly    *)
(* one ExpressionEngineRequirement entry.                                  *)
(***************************************************************************)
C1_RequirementsUnique ==
    /\ \A i, j \in 1..Len(Requirements) :
          Requirements[i].dict["class"] = Requirements[j].dict["class"] => i = j
    /\ DynamicFields # {} => Cardinality(EngineEntries) = 1

\* Two fields were classified as dynamic and one engine entry is registered.
C1_Witness ==
    /\ Cardinality(DynamicFields) >= 2
    /\ Cardinality(EngineEntries) = 1

(***************************************************************************)
(* C2: every stored port's type is ["null", T] when the port was made with *)
(* required=false and [T] when it was made with required=true, for the     *)
(* ports of the CwlInput/CwlOutput constructors and for those of           *)
(* add_input/add_output.                                                   *)
(***************************************************************************)
WrappedType(required, type) ==
    IF Truthy(required)
    THEN PyList(<<PyStr(type.txt)>>)
    ELSE PyList(<<PyStr(S_null), PyStr(type.txt)>>)

C2_TypeWrapsOptionality ==
    /\ \A i \in 1..Len(heap) :
          heap[i].cls \in {"CwlInput", "CwlOutput"} =>
              heap[i].dict["type"] = WrappedType(heap[i].args.required, heap[i].args.type)
    /\ call.op = "add_input" =>
          Last(Inputs).dict["type"] = WrappedType(call.args.required, call.args.type)
    /\ call.op = "add_output" =>
          Last(Outputs).dict["type"] = WrappedType(call.args.required, call.args.type)

(***************************************************************************)
(* C3: the tree object2json emits holds no attribute whose value is None,  *)
(* at any depth.                                                           *)
(***************************************************************************)
RECURSIVE NoNull(_)
NoNull(v) ==
    IF IsDict(v)
    THEN \A k \in DOMAIN v.dict : v.dict[k] # PyNone /\ NoNull(v.dict[k])
    ELSE IF IsList(v)
    THEN \A i \in 1..Len(v.list) : NoNull(v.list[i])
    ELSE TRUE

C3_NoNullEmitted == out # NotEmitted => NoNull(out)

(***************************************************************************)
(* C4: object2json, object2input, object2output and object2argument leave  *)
(* the attribute set of the CwlTool and of every instance as it was.       *)
(***************************************************************************)
C4_PruningDoesNotMutate ==
    [][call'.op \in {"object2json", "object2input", "object2output", "object2argument"}
        => /\ DOMAIN tool' = DOMAIN tool
           /\ \A i \in 1..Len(heap) : DOMAIN heap'[i].dict = DOMAIN heap[i].dict]_vars

(***************************************************************************)
(* C5: pruning removes only the attributes whose value is None: every      *)
(* other attribute of a pruned record, the falsy ones (False, 0, "", [])   *)
(* included, is still there with the value it had.                         *)
(***************************************************************************)
Kept(before, after) ==
    \A k \in DOMAIN before :
        before[k] # PyNone =>
            /\ k \in DOMAIN after
            /\ ~IsDict(before[k]) => after[k] = before[k]

C5_PruneKeepsFalsy ==
    [][/\ call'.op \in {"object2input", "object2output", "object2argument"} =>
            \A n \in 1..Len(call'.args.args) :
                Kept(heap[call'.args.args[n]].dict, heap'[call'.args.args[n]].dict)
       /\ call'.op = "object2json" =>
            /\ Kept(tool, tool')
            /\ \A i \in 1..Len(heap) : Kept(heap[i].dict, heap'[i].dict)
       /\ call'.op = "add_argument" =>
            Kept(call'.args, Last(tool'["arguments"].list).dict)]_vars

\* An argument made with prefix=None, separate=False, position=0 was pruned
\* by object2argument: prefix is gone, separate and position are kept.
C5_Witness ==
    /\ call.op = "object2argument"
    /\ \E n \in 1..Len(call.args.args) :
          LET o == heap[call.args.args[n]]
          IN  /\ o.args.prefix = PyNone
              /\ "prefix" \notin DOMAIN o.dict
              /\ o.dict["separate"] = PyFalse
              /\ o.dict["position"] = PyInt(S_0)

(***************************************************************************)
(* C6: add_base_command replaces baseCommand with the whitespace-split     *)
(* tokens of its text, fails when given an empty string, and so a          *)
(* baseCommand that was set is a non-empty sequence of tokens.             *)
(***************************************************************************)
C6_BaseCommandNonEmpty ==
    call.op = "add_base_command" =>
        /\ call.args.base = PyStr(S_empty) => raised
        /\ ~raised =>
              /\ BaseCommand # << >>
              /\ \A i \in 1..Len(BaseCommand) :
                    /\ BaseCommand[i].txt # << >>
                    /\ \A j \in 1..Len(BaseCommand[i].txt) : BaseCommand[i].txt[j] # " "

(***************************************************************************)
(* C7: the output port CwlOutput(id="no", type="File", glob="*.txt",       *)
(* required=True), added to a descriptor, is stored with id "#no", type    *)
(* ["File"] and outputBinding.glob the literal string "*.txt".             *)
(***************************************************************************)
ScenarioOutputs ==
    {i \in 1..Len(Outputs) :
        /\ IsRef(Outputs[i])
        /\ heap[Outputs[i].ref].args.id = PyStr(S_no)
        /\ heap[Outputs[i].ref].args.type = PyStr(S_File)
        /\ heap[Outputs[i].ref].args.glob = PyStr(S_glob_txt)
        /\ heap[Outputs[i].ref].args.required = PyTrue}

GlobOf(p) == heap[PortDict(p)["outputBinding"].obj].dict["glob"]

C7_GlobLiteral ==
    \A i \in ScenarioOutputs :
        /\ PortDict(Outputs[i])["id"] = PyStr(S_hash_no)
        /\ PortDict(Outputs[i])["type"] = PyList(<<PyStr(S_File)>>)
        /\ GlobOf(Outputs[i]) = PyStr(S_glob_txt)

\* C7 as amended: the same port is stored with id "#no", type ["File"] and
\* outputBinding.glob the Expression record whose script is "*.txt", the
\* glob holding the marker character '.'.
C7_GlobWrapped ==
    \A i \in ScenarioOutputs :
        /\ PortDict(Outputs[i])["id"] = PyStr(S_hash_no)
        /\ PortDict(Outputs[i])["type"] = PyList(<<PyStr(S_File)>>)
        /\ GlobOf(Outputs[i]) =
              PyDict([class |-> PyStr(S_Expression), engine |-> PyStr(S_engine),
                      script |-> PyStr(S_glob_txt)])

\* The scenario's port was constructed and object2output stored it.
C7_Witness == call.op = "object2output" /\ ScenarioOutputs # {}

(***************************************************************************)
(* C8: every port stored in inputs and outputs has an identifier that      *)
(* starts with '#': the given one when it started with '#', else the given *)
(* one with one '#' before it.                                             *)
(***************************************************************************)
Normalized(id) == IF id.txt # << >> /\ id.txt[1] = "#" THEN id ELSE PyStr(<<"#">> \o id.txt)

C8_StoredIdsPrefixed ==
    /\ \A i \in 1..Len(Inputs) : Head(PortDict(Inputs[i])["id"].txt) = "#"
    /\ \A i \in 1..Len(Outputs) : Head(PortDict(Outputs[i])["id"].txt) = "#"
    /\ \A i \in 1..Len(Inputs) :
          IsRef(Inputs[i]) =>
              PortDict(Inputs[i])["id"] = Normalized(heap[Inputs[i].ref].args.id)
    /\ \A i \in 1..Len(Outputs) :
          IsRef(Outputs[i]) =>
              PortDict(Outputs[i])["id"] = Normalized(heap[Outputs[i].ref].args.id)

(***************************************************************************)
(* C9: a value supplied for stdin, stdout, an output glob, an argument's   *)
(* valueFrom, an input's valueFrom or a CPU/memory hint is stored as the   *)
(* Expression record when its text holds one of ' $ . and unchanged when   *)
(* it holds none.                                                          *)
(***************************************************************************)
ToolFieldsClassified ==
    /\ call.op = "add_stdin" => tool["stdin"] = Classified(call.args.stdin)
    /\ call.op = "add_stdout" => tool["stdout"] = Classified(call.args.stdout)
    /\ call.op = "add_cpu" =>
          Last(Hints).dict = [class |-> PyStr(S_CPU), value |-> Classified(call.args.value)]
    /\ call.op = "add_mem" =>
          Last(Hints).dict = [class |-> PyStr(S_Mem), value |-> Classified(call.args.value)]
    /\ call.op = "add_computational_requirements" =>
          LET n == IF call.args.aws = PyNone THEN Len(Hints) ELSE Len(Hints) - 1
          IN  /\ Hints[n - 1].dict["value"] = Classified(call.args.cpu)
              /\ Hints[n].dict["value"] = Classified(call.args.mem)

\* The glob of every output Bindings instance that still holds one.
GlobsClassified ==
    \A i \in 1..Len(heap) :
        (heap[i].cls = "Bindings" /\ "glob" \in DOMAIN heap[i].args
            /\ heap[i].args.glob # PyNone)
        => heap[i].dict["glob"] = Classified(heap[i].args.glob)

Lists == {"inputs", "outputs", "arguments", "hints"}
ListOf(op) ==
    CASE op \in {"add_input", "object2input"} -> "inputs"
      [] op \in {"add_output", "object2output"} -> "outputs"
      [] op \in {"add_argument", "object2argument"} -> "arguments"
      [] OTHER -> "hints"
Appended(op, args) ==
    CASE op \in {"object2input", "object2output", "object2argument"} -> Len(args.args)
      [] op \in {"add_input", "add_output", "add_argument", "add_docker", "add_cpu",
                 "add_mem", "add_aws_instance"} -> 1
      [] op = "add_computational_requirements" -> IF Truthy(args.aws) THEN 3 ELSE 2
      [] OTHER -> 0

C10_AppendOnly ==
    [][/\ \A k \in Lists : IsPrefix(tool[k].list, tool'[k].list)
       /\ (~raised' /\ calls' = calls + 1) =>
             /\ \A k \in Lists :
                   Len(tool'[k].list) =
                       Len(tool[k].list)
                       + (IF k = ListOf(call'.op) THEN Appended(call'.op, call'.args) ELSE 0)
             /\ call'.op \in {"object2input", "object2output", "object2argument"} =>
                   \A n \in 1..Len(call'.args.args) :
                       tool'[ListOf(call'.op)].list[Len(tool[ListOf(call'.op)].list) + n]
                           = [ref |-> call'.args.args[n]]]_vars

\* A stored input port kept its place through an emission that pruned its
\* binding, behind the two hints of the constructor.
C10_Witness ==
    /\ call.op = "object2json"
    /\ Len(Inputs) = 1
    /\ IsRef(Inputs[1])
    /\ "inputBinding" \in DOMAIN PortDict(Inputs[1])
    /\ "position" \notin DOMAIN heap[PortDict(Inputs[1])["inputBinding"].obj].dict
    /\ Len(Hints) = 2

====
